---- MODULE Spec2Model ----
(***************************************************************************)
(* Model of the CoolPC MCP server (src/src/index.ts): the catalog store    *)
(* (productData), its one-time load, and the CallTool dispatcher with the  *)
(* four query functions searchProducts, getProductByModel, listCategories  *)
(* and getCategoryProducts.                                                *)
(*                                                                         *)
(* Encoding of JavaScript values:                                          *)
(*   - a string is a sequence of one-character strings;                    *)
(*   - an optional value (undefined / null) is <<>>, a present value v is  *)
(*     <<v>>;                                                              *)
(*   - the object handed to JSON.stringify is a record with the same       *)
(*     fields, a thrown exception is [threw |-> TRUE, ...].                *)
(***************************************************************************)
EXTENDS Integers, Sequences, FiniteSets, TLC

\* ------------------------------------------------------------------------
\* Bounds of the model and program constants
\* ------------------------------------------------------------------------
MaxCats == 2              \* categories in a catalog document
MaxLimit == 2             \* largest explicit limit argument
MaxRun == 10              \* length of the long run of products in one subcategory

DefaultSearchLimit == 10      \* index.ts:182  limit = 10
DefaultCategoryLimit == 20    \* index.ts:322  limit = 20

\* ------------------------------------------------------------------------
\* JavaScript value helpers
\* ------------------------------------------------------------------------
Undefined == << >>
Null == << >>
Some(v) == <<v>>
IsGiven(o) == o # << >>

\* String.prototype.toLowerCase on the alphabet the model uses
LowerChar(c) ==
  CASE c = "A" -> "a" [] c = "C" -> "c" [] c = "D" -> "d" [] c = "G" -> "g"
    [] c = "I" -> "i" [] c = "M" -> "m" [] c = "P" -> "p" [] c = "R" -> "r"
    [] c = "U" -> "u" [] c = "X" -> "x" [] c = "Z" -> "z"
    [] OTHER -> c

toLowerCase(s) == [i \in 1..Len(s) |-> LowerChar(s[i])]

\* String.prototype.includes
includes(text, sub) ==
  \E i \in 0..(Len(text) - Len(sub)) :
    \A j \in 1..Len(sub) : text[i + j] = sub[j]

\* Array.prototype.join(" ")
RECURSIVE join(_)
join(parts) ==
  IF Len(parts) = 0 THEN << >>
  ELSE IF Len(parts) = 1 THEN parts[1]
  ELSE parts[1] \o <<" ">> \o join(Tail(parts))

\* truthiness of an optional number / an optional string
TruthyNumber(o) == IsGiven(o) /\ o[1] # 0
TruthyString(o) == IsGiven(o) /\ Len(o[1]) > 0

\* a destructuring default: `limit = d`
WithDefault(o, d) == IF IsGiven(o) THEN o[1] ELSE d

\* text of a value interpolated in a template literal
StrUndefined == <<"u","n","d","e","f","i","n","e","d">>
Interpolate(o) == IF IsGiven(o) THEN o[1] ELSE StrUndefined

\* Array.prototype.slice(0, end)
Min(a, b) == IF a < b THEN a ELSE b
Max(a, b) == IF a > b THEN a ELSE b
slice(arr, end) ==
  LET k == IF end < 0 THEN Max(Len(arr) + end, 0) ELSE Min(end, Len(arr))
  IN SubSeq(arr, 1, k)

\* ------------------------------------------------------------------------
\* Catalog documents (product.json)
\* ------------------------------------------------------------------------
Product(ix, br, mo, sp, pr, op, da, mk, raw) ==
  [index |-> ix, group |-> Null, brand |-> br, model |-> mo, specs |-> sp,
   price |-> pr, original_price |-> op, discount_amount |-> da,
   markers |-> mk, raw_text |-> raw]

pIntel == Product(<<"1">>, <<"I">>, <<"i","5">>, << <<"6","c">> >>, 6000,
                  Null, Null, << >>, <<"I"," ","i","5">>)
pAmd == Product(<<"2">>, <<"A">>, <<"R","7">>, << >>, 7000,
                  Some(7500), Some(500), << <<"h">> >>, <<"v","s"," ","i","5">>)
pDup == Product(<<"3">>, <<"X">>, <<"I","5">>, << <<"a">>, <<"b">> >>, 5999,
                  Null, Null, << >>, <<"X"," ","z">>)
pOther == Product(<<"4">>, <<"Z">>, <<"z","9">>, << <<"d">> >>, 0,
                  Null, Null, << >>, <<"Z"," ","z","9">>)

Subcategory(nm, ps) == [name |-> nm, products |-> ps]

nIntel == <<"I","n">>
nintel == <<"i","n">>
nAmd == <<"A","M","D">>
nAmdX == <<"A","M","D","x">>
nBlank == << >>

LongRun == [i \in 1..MaxRun |-> pIntel] \o <<pAmd>>

SubLayouts ==
  { << >>,
    << Subcategory(nIntel, <<pIntel, pAmd>>) >>,
    << Subcategory(nIntel, <<pDup, pIntel>>), Subcategory(nintel, <<pAmd>>) >>,
    << Subcategory(nAmd, << >>), Subcategory(nBlank, <<pOther, pDup>>) >>,
    << Subcategory(nAmdX, LongRun), Subcategory(nAmd, <<pOther>>) >> }

Stats(n) ==
  [total_items |-> n, hot_items |-> 0, with_images |-> 0,
   with_discussions |-> 0, price_changes |-> 0, time_limited |-> 0]

RECURSIVE CountProducts(_)
CountProducts(subs) ==
  IF Len(subs) = 0 THEN 0
  ELSE Len(subs[1].products) + CountProducts(Tail(subs))

Headers ==
  { [category_id |-> <<"C","1">>, category_name |-> <<"C","P","U">>],
    [category_id |-> <<"c","1">>, category_name |-> <<"G","P","U">>] }

ProductCategory(h, subs) ==
  [category_id |-> h.category_id, category_name |-> h.category_name,
   summary |-> << >>, stats |-> Stats(CountProducts(subs)),
   subcategories |-> subs]

CategoryPool == { ProductCategory(h, subs) : h \in Headers, subs \in SubLayouts }

RECURSIVE SeqsUpTo(_, _)
SeqsUpTo(S, n) ==
  IF n = 0 THEN { << >> }
  ELSE LET shorter == SeqsUpTo(S, n - 1)
       IN shorter \cup { Append(s, x) : s \in { t \in shorter : Len(t) = n - 1 }, x \in S }

Catalogs == SeqsUpTo(CategoryPool, MaxCats)

\* what readFileSync + JSON.parse can meet at ../product.json
Documents ==
  { [kind |-> "missing", value |-> << >>],
    [kind |-> "invalid_json", value |-> << >>],
    [kind |-> "object", value |-> << >>],
    [kind |-> "null", value |-> << >>] }
  \cup { [kind |-> "array", value |-> c] : c \in Catalogs }

\* ------------------------------------------------------------------------
\* Query engine
\* ------------------------------------------------------------------------
Returned(payload) == [threw |-> FALSE, error |-> "", payload |-> payload]
Threw(err) == [threw |-> TRUE, error |-> err, payload |-> << >>]

\* a variant of searchText that leaves raw_text out of the combined text
searchTextNoRawText(product) ==
  toLowerCase(product.brand \o <<" ">> \o product.model \o <<" ">>
              \o join(product.specs))

\* index.ts:192  the text a keyword is matched against
searchText(product) ==
  toLowerCase(product.brand \o <<" ">> \o product.model \o <<" ">>
              \o join(product.specs) \o <<" ">> \o product.raw_text)

\* index.ts:186  the category filter: TRUE when the category is skipped
categorySkipped(cat, category) ==
  TruthyString(category)
  /\ ~includes(toLowerCase(cat.category_name), toLowerCase(category[1]))

\* index.ts:198-204  the price filters: TRUE when the product is skipped
belowMinPrice(product, min_price) ==
  TruthyNumber(min_price) /\ product.price < min_price[1]

aboveMaxPrice(product, max_price) ==
  TruthyNumber(max_price) /\ product.price > max_price[1]

\* index.ts:206-210  the element pushed on results
searchHit(product, cat, subcat) ==
  [product |-> product, category_name |-> cat.category_name,
   subcategory_name |-> subcat.name]

\* index.ts:212,217,222  the test after which the loops break
limitReached(results, limit) == Len(results) >= limit

\* index.ts:191-215  the loop over subcat.products, from product i on.
\* acc is [threw, results]; keyword.toLowerCase() throws a TypeError when
\* keyword is undefined.
RECURSIVE productLoop(_, _, _, _, _, _)
productLoop(cat, subcat, args, limit, i, results) ==
  IF i > Len(subcat.products) THEN [threw |-> FALSE, results |-> results]
  ELSE LET product == subcat.products[i] IN
    IF ~IsGiven(args.keyword) THEN [threw |-> TRUE, results |-> results]
    ELSE IF ~includes(searchText(product), toLowerCase(args.keyword[1]))
      THEN productLoop(cat, subcat, args, limit, i + 1, results)
    ELSE IF belowMinPrice(product, args.min_price)
      THEN productLoop(cat, subcat, args, limit, i + 1, results)
    ELSE IF aboveMaxPrice(product, args.max_price)
      THEN productLoop(cat, subcat, args, limit, i + 1, results)
    ELSE LET pushed == Append(results, searchHit(product, cat, subcat)) IN
      IF limitReached(pushed, limit)
        THEN [threw |-> FALSE, results |-> pushed]
        ELSE productLoop(cat, subcat, args, limit, i + 1, pushed)

\* index.ts:190-220  the loop over cat.subcategories, from subcategory j on
RECURSIVE subcatLoop(_, _, _, _, _)
subcatLoop(cat, args, limit, j, results) ==
  IF j > Len(cat.subcategories) THEN [threw |-> FALSE, results |-> results]
  ELSE LET r == productLoop(cat, cat.subcategories[j], args, limit, 1, results) IN
    IF r.threw \/ limitReached(r.results, limit) THEN r
    ELSE subcatLoop(cat, args, limit, j + 1, r.results)

\* index.ts:185-225  the loop over this.productData, from category c on
RECURSIVE catLoop(_, _, _, _, _)
catLoop(items, args, limit, c, results) ==
  IF c > Len(items) THEN [threw |-> FALSE, results |-> results]
  ELSE IF categorySkipped(items[c], args.category)
    THEN catLoop(items, args, limit, c + 1, results)
  ELSE LET r == subcatLoop(items[c], args, limit, 1, results) IN
    IF r.threw \/ limitReached(r.results, limit) THEN r
    ELSE catLoop(items, args, limit, c + 1, r.results)

\* index.ts:233-243  a product as search_products reports it
searchView(hit) ==
  [brand |-> hit.product.brand, model |-> hit.product.model,
   specs |-> hit.product.specs, price |-> hit.product.price,
   original_price |-> hit.product.original_price,
   discount_amount |-> hit.product.discount_amount,
   category |-> hit.category_name, subcategory |-> hit.subcategory_name,
   markers |-> hit.product.markers]

\* index.ts:181-248
searchProducts(data, args) ==
  IF data.type # "array" THEN Threw("TypeError")
  ELSE LET limit == WithDefault(args.limit, DefaultSearchLimit)
           r == catLoop(data.items, args, limit, 1, << >>)
       IN IF r.threw THEN Threw("TypeError")
          ELSE Returned([total_found |-> Len(r.results),
                         results |-> [k \in 1..Len(r.results) |-> searchView(r.results[k])]])

\* a variant of modelEquals that compares the models case-sensitively
modelEqualsCaseSensitive(productModel, model) == productModel = model

\* index.ts:256  product.model.toLowerCase() === model.toLowerCase()
modelEquals(productModel, model) == toLowerCase(productModel) = toLowerCase(model)

\* index.ts:261-275  the payload of a hit
modelFound(product, cat, subcat) ==
  [found |-> TRUE,
   product |-> [brand |-> product.brand, model |-> product.model,
                specs |-> product.specs, price |-> product.price,
                original_price |-> product.original_price,
                discount_amount |-> product.discount_amount,
                category |-> cat.category_name, subcategory |-> subcat.name,
                markers |-> product.markers, raw_text |-> product.raw_text]]

\* index.ts:288-291  the payload of a miss
modelNotFound(model) ==
  [found |-> FALSE,
   message |-> [text |-> "Product with model {} not found", quoted |-> Interpolate(model)]]

\* index.ts:253-282  the three nested loops, from (c, j, i) on; the first
\* product reached throws a TypeError when model is undefined
RECURSIVE modelLoop(_, _, _, _, _)
modelLoop(items, model, c, j, i) ==
  IF c > Len(items) THEN Returned(modelNotFound(model))
  ELSE IF j > Len(items[c].subcategories) THEN modelLoop(items, model, c + 1, 1, 1)
  ELSE IF i > Len(items[c].subcategories[j].products) THEN modelLoop(items, model, c, j + 1, 1)
  ELSE IF ~IsGiven(model) THEN Threw("TypeError")
  ELSE IF modelEquals(items[c].subcategories[j].products[i].model, model[1])
    THEN Returned(modelFound(items[c].subcategories[j].products[i], items[c],
                             items[c].subcategories[j]))
  ELSE modelLoop(items, model, c, j, i + 1)

\* index.ts:250-295
getProductByModel(data, args) ==
  IF data.type # "array" THEN Threw("TypeError")
  ELSE modelLoop(data.items, args.model, 1, 1, 1)

\* index.ts:302-305
subcategoryEntry(subcat) == [name |-> subcat.name, product_count |-> Len(subcat.products)]

\* index.ts:298-306
categoryEntry(cat) ==
  [category_id |-> cat.category_id, category_name |-> cat.category_name,
   stats |-> cat.stats,
   subcategories |-> [j \in 1..Len(cat.subcategories) |->
                        subcategoryEntry(cat.subcategories[j])]]

\* index.ts:297-319
listCategories(data) ==
  IF data.type # "array" THEN Threw("TypeError")
  ELSE Returned([total_categories |-> Len(data.items),
                 categories |-> [c \in 1..Len(data.items) |-> categoryEntry(data.items[c])]])

\* a variant of idEquals that ignores letter case, as the name lookups do
idEqualsIgnoringCase(storedId, category_id) ==
  IsGiven(category_id) /\ toLowerCase(storedId) = toLowerCase(category_id[1])

\* index.ts:324  cat.category_id === category_id
idEquals(storedId, category_id) == IsGiven(category_id) /\ storedId = category_id[1]

\* index.ts:324  Array.prototype.find: the index of the first category with
\* that id, 0 when there is none
findCategory(items, category_id) ==
  LET hits == { c \in 1..Len(items) : idEquals(items[c].category_id, category_id) }
  IN IF hits = {} THEN 0 ELSE CHOOSE c \in hits : \A d \in hits : c <= d

\* a variant of subcategoryEquals that matches by substring, as the category
\* filter of search_products does
subcategoryIncludes(name, subcategory_name) ==
  includes(toLowerCase(name), toLowerCase(subcategory_name))

\* index.ts:345  sub.name.toLowerCase() === subcategory_name.toLowerCase()
subcategoryEquals(name, subcategory_name) ==
  toLowerCase(name) = toLowerCase(subcategory_name)

\* index.ts:344-346  the index of the first subcategory with that name, 0
\* when there is none
findSubcategory(subs, subcategory_name) ==
  LET hits == { j \in 1..Len(subs) : subcategoryEquals(subs[j].name, subcategory_name) }
  IN IF hits = {} THEN 0 ELSE CHOOSE j \in hits : \A k \in hits : j <= k

\* index.ts:363-366, 370-373  a product tagged with its subcategory
tagged(subcat) ==
  [i \in 1..Len(subcat.products) |->
     [product |-> subcat.products[i], subcategory |-> subcat.name]]

\* index.ts:369-374  every subcategory's products, in source order
RECURSIVE allSubcategoryProducts(_)
allSubcategoryProducts(subs) ==
  IF Len(subs) = 0 THEN << >>
  ELSE tagged(subs[1]) \o allSubcategoryProducts(Tail(subs))

\* index.ts:378-385  a product as get_category_products reports it
categoryView(p) ==
  [brand |-> p.product.brand, model |-> p.product.model,
   specs |-> p.product.specs, price |-> p.product.price,
   original_price |-> p.product.original_price,
   discount_amount |-> p.product.discount_amount,
   subcategory |-> p.subcategory, markers |-> p.product.markers]

\* index.ts:377-386  allProducts.slice(0, limit).map(...)
limitedProducts(allProducts, limit) ==
  LET cut == slice(allProducts, limit)
  IN [k \in 1..Len(cut) |-> categoryView(cut[k])]

\* index.ts:392-398
categoryListing(category, subcategoryInfo, allProducts, limit) ==
  LET products == limitedProducts(allProducts, limit)
  IN [category_name |-> category.category_name,
      subcategory_filter |-> subcategoryInfo,
      total_products |-> Len(allProducts),
      showing |-> Len(products),
      products |-> products]

\* index.ts:330-333
categoryNotFound(category_id) ==
  [found |-> FALSE,
   message |-> [text |-> "Category with ID {} not found",
                quoted |-> Interpolate(category_id)]]

\* index.ts:353-356
subcategoryNotFound(subcategory_name, category) ==
  [found |-> FALSE,
   message |-> [text |-> "Subcategory {} not found in category {}",
                quoted |-> subcategory_name, category |-> category.category_name]]

\* index.ts:321-402
getCategoryProducts(data, args) ==
  IF data.type # "array" THEN Threw("TypeError")
  ELSE LET limit == WithDefault(args.limit, DefaultCategoryLimit)
           c == findCategory(data.items, args.category_id)
       IN IF c = 0 THEN Returned(categoryNotFound(args.category_id))
          ELSE LET category == data.items[c] IN
            IF TruthyString(args.subcategory_name)
            THEN LET j == findSubcategory(category.subcategories, args.subcategory_name[1])
                 IN IF j = 0
                    THEN Returned(subcategoryNotFound(args.subcategory_name[1], category))
                    ELSE Returned(categoryListing(category,
                                    Some(category.subcategories[j].name),
                                    tagged(category.subcategories[j]), limit))
            ELSE Returned(categoryListing(category, Null,
                            allSubcategoryProducts(category.subcategories), limit))

\* ------------------------------------------------------------------------
\* The server: construction, the CallTool handler, the transport
\* ------------------------------------------------------------------------
VARIABLES
  document,     \* the content of ../product.json
  productData,  \* this.productData
  phase,        \* "constructing" until the constructor has run, then "running"
  request,      \* the CallTool request being answered
  response,     \* << >>, or <<r>> for the handler's outcome r not yet sent
  invoked       \* the query function the handler called for this request

vars == <<document, productData, phase, request, response, invoked>>

NoRequest == [name |-> "", args |-> [unused |-> Undefined]]
NoArgs == [unused |-> Undefined]

\* index.ts:52  private productData: ProductCategory[] = []
EmptyCatalog == [type |-> "array", items |-> << >>]

Init ==
  /\ document \in Documents
  /\ productData = EmptyCatalog
  /\ phase = "constructing"
  /\ request = NoRequest
  /\ response = << >>
  /\ invoked = "none"

\* index.ts:72-78  readFileSync or JSON.parse throws into the catch, which
\* only logs; otherwise whatever JSON.parse returned is stored
parsedProductData(doc, current) ==
  CASE doc.kind = "missing" -> current
    [] doc.kind = "invalid_json" -> current
    [] doc.kind = "array" -> [type |-> "array", items |-> doc.value]
    [] OTHER -> [type |-> doc.kind, items |-> << >>]

\* index.ts:54-69, 71-79  the constructor: loadProductData, setupHandlers
loadProductData ==
  /\ phase = "constructing"
  /\ productData' = parsedProductData(document, productData)
  /\ phase' = "running"
  /\ UNCHANGED <<document, request, response, invoked>>

\* the arguments a client may send
KeywordArgs == { Undefined, Some(<<"I","5">>), Some(<<"r","7">>) }
CategoryArgs == { Undefined, Some(<<"c","p">>) }
PriceArgs == { Undefined, Some(0), Some(6000) }
LimitArgs == { Undefined } \cup { Some(n) : n \in -1..MaxLimit }
ModelArgs == { Undefined, Some(<<"I","5">>), Some(<<"r","7">>), Some(<<"q">>) }
CategoryIdArgs == { Undefined, Some(<<"C","1">>), Some(<<"c","1">>), Some(<<"C","2">>) }
SubcategoryArgs ==
  { Undefined, Some(<<>>), Some(<<"i","n">>), Some(<<"a","m","d">>), Some(<<"q">>) }

SearchArgs ==
  [keyword : KeywordArgs, category : CategoryArgs, min_price : PriceArgs,
   max_price : PriceArgs, limit : LimitArgs]
GetByModelArgs == [model : ModelArgs]
CategoryProductsArgs ==
  [category_id : CategoryIdArgs, subcategory_name : SubcategoryArgs, limit : LimitArgs]

\* index.ts:166-177  the switch over the tool name
callTool(data, name, args) ==
  CASE name = "search_products" -> searchProducts(data, args)
    [] name = "get_product_by_model" -> getProductByModel(data, args)
    [] name = "list_categories" -> listCategories(data)
    [] name = "get_category_products" -> getCategoryProducts(data, args)
    [] OTHER -> Threw("Unknown tool")

\* index.ts:166-177  which query function the switch calls
engineCalled(name) ==
  CASE name = "search_products" -> "searchProducts"
    [] name = "get_product_by_model" -> "getProductByModel"
    [] name = "list_categories" -> "listCategories"
    [] name = "get_category_products" -> "getCategoryProducts"
    [] OTHER -> "none"

\* a variant of productDataAfter in which get_category_products consumes the
\* category array it searched (shift instead of find)
productDataShifted(data, name) ==
  IF name = "get_category_products" /\ data.type = "array" /\ Len(data.items) > 0
  THEN [data EXCEPT !.items = Tail(@)]
  ELSE data

\* index.ts:181-402  this.productData after a query function has run: none
\* of them assigns it or writes through it
productDataAfter(data, name) == data

\* the server is up and the previous outcome has been sent
idle == phase = "running" /\ response = << >>

\* index.ts:163-178  the CallTool handler, one action per case of the switch
CallSearchProducts ==
  \E args \in SearchArgs :
    /\ idle
    /\ request' = [name |-> "search_products", args |-> args]
    /\ invoked' = engineCalled("search_products")
    /\ response' = Some(callTool(productData, "search_products", args))
    /\ productData' = productDataAfter(productData, "search_products")
    /\ UNCHANGED <<document, phase>>

CallGetProductByModel ==
  \E args \in GetByModelArgs :
    /\ idle
    /\ request' = [name |-> "get_product_by_model", args |-> args]
    /\ invoked' = engineCalled("get_product_by_model")
    /\ response' = Some(callTool(productData, "get_product_by_model", args))
    /\ productData' = productDataAfter(productData, "get_product_by_model")
    /\ UNCHANGED <<document, phase>>

CallListCategories ==
  /\ idle
  /\ request' = [name |-> "list_categories", args |-> NoArgs]
  /\ invoked' = engineCalled("list_categories")
  /\ response' = Some(callTool(productData, "list_categories", NoArgs))
  /\ productData' = productDataAfter(productData, "list_categories")
  /\ UNCHANGED <<document, phase>>

CallGetCategoryProducts ==
  \E args \in CategoryProductsArgs :
    /\ idle
    /\ request' = [name |-> "get_category_products", args |-> args]
    /\ invoked' = engineCalled("get_category_products")
    /\ response' = Some(callTool(productData, "get_category_products", args))
    /\ productData' = productDataAfter(productData, "get_category_products")
    /\ UNCHANGED <<document, phase>>

\* index.ts:175-176  default: throw new Error(`Unknown tool: ${name}`)
CallUnknownTool ==
  /\ idle
  /\ request' = [name |-> "no_such_tool", args |-> NoArgs]
  /\ invoked' = engineCalled("no_such_tool")
  /\ response' = Some(callTool(productData, "no_such_tool", NoArgs))
  /\ productData' = productDataAfter(productData, "no_such_tool")
  /\ UNCHANGED <<document, phase>>

\* the SDK sends the handler's outcome back; the server waits for the next request
SendResponse ==
  /\ response # << >>
  /\ response' = << >>
  /\ request' = NoRequest
  /\ invoked' = "none"
  /\ UNCHANGED <<document, productData, phase>>

Next ==
  \/ loadProductData
  \/ CallSearchProducts
  \/ CallGetProductByModel
  \/ CallListCategories
  \/ CallGetCategoryProducts
  \/ CallUnknownTool
  \/ SendResponse

Spec == Init /\ [][Next]_vars

\* ------------------------------------------------------------------------
\* Vocabulary of the properties
\* ------------------------------------------------------------------------
\* the catalog in traversal order: category, then subcategory, then product
RECURSIVE FlatProducts(_, _, _)
FlatProducts(cat, subcat, i) ==
  IF i > Len(subcat.products) THEN << >>
  ELSE <<[cat |-> cat, subcat |-> subcat, product |-> subcat.products[i]]>>
       \o FlatProducts(cat, subcat, i + 1)

RECURSIVE FlatSubcats(_, _)
FlatSubcats(cat, j) ==
  IF j > Len(cat.subcategories) THEN << >>
  ELSE FlatProducts(cat, cat.subcategories[j], 1) \o FlatSubcats(cat, j + 1)

RECURSIVE Flat(_)
Flat(items) ==
  IF Len(items) = 0 THEN << >>
  ELSE FlatSubcats(items[1], 1) \o Flat(Tail(items))

\* the first n elements of s; none when n <= 0
FirstN(s, n) == SubSeq(s, 1, Min(Max(n, 0), Len(s)))

\* the handler has answered a request for tool `name` over a loaded array
Answered(name) ==
  /\ phase = "running"
  /\ response # << >>
  /\ request.name = name
  /\ productData.type = "array"

Outcome == response[1]
Payload == response[1].payload

EntryView(e) == searchView(searchHit(e.product, e.cat, e.subcat))

\* e is a match of a search_products call: keyword in the combined text,
\* category filter passed, price filters passed
IsMatch(e, args) ==
  /\ includes(searchText(e.product), toLowerCase(args.keyword[1]))
  /\ ~categorySkipped(e.cat, args.category)
  /\ ~belowMinPrice(e.product, args.min_price)
  /\ ~aboveMaxPrice(e.product, args.max_price)

AllMatches(items, args) ==
  LET Test(e) == IsMatch(e, args)
      hits == SelectSeq(Flat(items), Test)
  IN [k \in 1..Len(hits) |-> EntryView(hits[k])]

\* C1: search_products never returns more than limit results, and what it
\* returns is the first limit matches in traversal order, for every limit
\* the caller may pass, 0 and negative values included (a limit below 0
\* read as allowing no result).
C1_LimitCapsSearch ==
  (Answered("search_products") /\ IsGiven(request.args.keyword)) =>
    LET limit == WithDefault(request.args.limit, DefaultSearchLimit)
    IN /\ ~Outcome.threw
       /\ Len(Payload.results) <= Max(limit, 0)
       /\ Payload.results = FirstN(AllMatches(productData.items, request.args), limit)

\* C2: min_price and max_price are inclusive bounds: no returned product has
\* price < min_price or price > max_price for any given bound (0 included),
\* and a product whose price equals a bound is not excluded by it.
C2_PriceBoundsInclusive ==
  (Answered("search_products") /\ IsGiven(request.args.keyword)) =>
    LET args == request.args
        limit == WithDefault(args.limit, DefaultSearchLimit)
        flat == Flat(productData.items)
    IN /\ ~Outcome.threw
       /\ \A k \in 1..Len(Payload.results) :
            /\ IsGiven(args.min_price) => Payload.results[k].price >= args.min_price[1]
            /\ IsGiven(args.max_price) => Payload.results[k].price <= args.max_price[1]
       /\ \A n \in 1..Len(flat) :
            ( /\ includes(searchText(flat[n].product), toLowerCase(args.keyword[1]))
              /\ ~categorySkipped(flat[n].cat, args.category)
              /\ IsGiven(args.min_price) => flat[n].product.price >= args.min_price[1]
              /\ IsGiven(args.max_price) => flat[n].product.price <= args.max_price[1]
              /\ Len(Payload.results) < limit )
            => \E k \in 1..Len(Payload.results) : Payload.results[k] = EntryView(flat[n])

\* a search_products call that passes the keyword and nothing else
KeywordOnly(args) ==
  /\ IsGiven(args.keyword) /\ Len(args.keyword[1]) > 0
  /\ ~IsGiven(args.category) /\ ~IsGiven(args.min_price)
  /\ ~IsGiven(args.max_price) /\ ~IsGiven(args.limit)

\* the keyword is a substring of the product's raw_text, compared case-insensitively
InRawText(product, keyword) ==
  includes(toLowerCase(product.raw_text), toLowerCase(keyword))

\* the number of entries before position n whose combined text holds the keyword
MatchesBefore(flat, n, keyword) ==
  Cardinality({ m \in 1..(n - 1) :
                  includes(searchText(flat[m].product), toLowerCase(keyword)) })

\* C3 as stated: for every product and every keyword that is a non-empty
\* substring of its raw_text (case-insensitively), search_products(keyword)
\* with no other argument returns a result set that contains the product.
C3_SubstringComplete ==
  (Answered("search_products") /\ KeywordOnly(request.args)) =>
    LET flat == Flat(productData.items)
    IN /\ ~Outcome.threw
       /\ \A n \in 1..Len(flat) :
            InRawText(flat[n].product, request.args.keyword[1])
            => \E k \in 1..Len(Payload.results) : Payload.results[k] = EntryView(flat[n])

\* C3 amended: the same, for every such product that fewer than 10 (the
\* default limit) matching products precede in traversal order; the product
\* is then the result at the position of its rank among the matches.
C3_SubstringCompleteWithinDefaultLimit ==
  (Answered("search_products") /\ KeywordOnly(request.args)) =>
    LET flat == Flat(productData.items)
    IN /\ ~Outcome.threw
       /\ \A n \in 1..Len(flat) :
            LET before == MatchesBefore(flat, n, request.args.keyword[1])
            IN ( /\ InRawText(flat[n].product, request.args.keyword[1])
                 /\ before < DefaultSearchLimit )
               => /\ Len(Payload.results) > before
                  /\ Payload.results[before + 1] = EntryView(flat[n])

\* a keyword-only search returned, after another match, a product that holds
\* the keyword in its raw_text alone (in another letter case)
C3_Witness ==
  /\ Answered("search_products") /\ KeywordOnly(request.args)
  /\ ~Outcome.threw
  /\ \E n \in 1..Len(Flat(productData.items)) :
       LET e == Flat(productData.items)[n]
           kw == request.args.keyword[1]
       IN /\ InRawText(e.product, kw)
          /\ ~includes(e.product.raw_text, kw)
          /\ ~includes(toLowerCase(e.product.brand \o <<" ">> \o e.product.model
                                   \o <<" ">> \o join(e.product.specs)), toLowerCase(kw))
          /\ MatchesBefore(Flat(productData.items), n, kw) > 0
          /\ \E k \in 2..Len(Payload.results) : Payload.results[k] = EntryView(e)

\* the positions of the products whose model equals m, ignoring case
ModelHits(flat, m) ==
  { n \in 1..Len(flat) : toLowerCase(flat[n].product.model) = toLowerCase(m) }

\* C4: get_product_by_model(m) matches m against each product's model by
\* case-insensitive exact equality; with at least one match it returns
\* found:true and the first match in catalog order, with its category and
\* subcategory names and raw_text; with none it returns found:false and a
\* message carrying m; it never ends in an error.
C4_FirstModelMatch ==
  (Answered("get_product_by_model") /\ IsGiven(request.args.model)) =>
    LET flat == Flat(productData.items)
        m == request.args.model[1]
        hits == ModelHits(flat, m)
    IN /\ ~Outcome.threw
       /\ hits # {} =>
            LET first == flat[CHOOSE n \in hits : \A h \in hits : n <= h]
            IN /\ Payload.found
               /\ Payload.product =
                    [brand |-> first.product.brand, model |-> first.product.model,
                     specs |-> first.product.specs, price |-> first.product.price,
                     original_price |-> first.product.original_price,
                     discount_amount |-> first.product.discount_amount,
                     category |-> first.cat.category_name,
                     subcategory |-> first.subcat.name,
                     markers |-> first.product.markers,
                     raw_text |-> first.product.raw_text]
       /\ hits = {} => (~Payload.found /\ Payload.message.quoted = m)

\* the queried model differs in letter case from the model of the product
\* returned, and a later product has that model too
C4_Witness ==
  /\ Answered("get_product_by_model") /\ IsGiven(request.args.model)
  /\ ~Outcome.threw /\ Payload.found
  /\ Payload.product.model # request.args.model[1]
  /\ Cardinality(ModelHits(Flat(productData.items), request.args.model[1])) > 1

\* the storage invariants of a catalog
UniqueIds(items) ==
  \A a, b \in 1..Len(items) : a # b => items[a].category_id # items[b].category_id

UniqueNames(cat) ==
  \A a, b \in 1..Len(cat.subcategories) :
    a # b => cat.subcategories[a].name # cat.subcategories[b].name

UniqueNamesIgnoringCase(cat) ==
  \A a, b \in 1..Len(cat.subcategories) :
    a # b => toLowerCase(cat.subcategories[a].name) # toLowerCase(cat.subcategories[b].name)

NamesNotEmpty(cat) ==
  \A a \in 1..Len(cat.subcategories) : Len(cat.subcategories[a].name) > 0

\* every product_count list_categories reported equals the total_products
\* of get_category_products for that category id and subcategory name
CountsAgree ==
  /\ ~Outcome.threw
  /\ \A c \in 1..Len(productData.items) :
       \A j \in 1..Len(productData.items[c].subcategories) :
         LET r == getCategoryProducts(productData,
                    [category_id |-> Some(productData.items[c].category_id),
                     subcategory_name |-> Some(productData.items[c].subcategories[j].name),
                     limit |-> Undefined])
         IN /\ ~r.threw
            /\ "total_products" \in DOMAIN r.payload
            /\ Payload.categories[c].subcategories[j].product_count
                 = r.payload.total_products

\* C5 as stated: for every category and every subcategory stored in it, the
\* product_count of list_categories equals the total_products of
\* get_category_products(category_id, subcategory name), for any catalog with
\* unique category ids and subcategory names unique case-sensitively.
C5_CountsAgree ==
  ( /\ Answered("list_categories")
    /\ UniqueIds(productData.items)
    /\ \A c \in 1..Len(productData.items) : UniqueNames(productData.items[c]) )
  => CountsAgree

\* C5 amended: the same, for any catalog with unique category ids whose
\* subcategory names are non-empty and unique within a category when letter
\* case is ignored.
C5_CountsAgreeIgnoringCase ==
  ( /\ Answered("list_categories")
    /\ UniqueIds(productData.items)
    /\ \A c \in 1..Len(productData.items) :
         /\ UniqueNamesIgnoringCase(productData.items[c])
         /\ NamesNotEmpty(productData.items[c]) )
  => CountsAgree

\* list_categories answered over such a catalog, of two categories, one of
\* them with two subcategories of different product counts
C5_Witness ==
  /\ Answered("list_categories") /\ ~Outcome.threw
  /\ UniqueIds(productData.items)
  /\ Len(productData.items) = 2
  /\ \A c \in 1..Len(productData.items) :
       /\ UniqueNamesIgnoringCase(productData.items[c])
       /\ NamesNotEmpty(productData.items[c])
  /\ \E c \in 1..Len(productData.items) :
       /\ Len(Payload.categories[c].subcategories) = 2
       /\ Payload.categories[c].subcategories[1].product_count
            # Payload.categories[c].subcategories[2].product_count

\* the positions of the stored categories whose id is exactly the id asked for
StoredWithId(items, category_id) ==
  { c \in 1..Len(items) : IsGiven(category_id) /\ items[c].category_id = category_id[1] }

\* C6: get_category_products(id) returns found:false with a message naming
\* the id when no stored category_id is exactly equal to id; when id matches
\* a stored category and subcategory_name is omitted, total_products is the
\* sum of the product counts of all that category's subcategories.
C6_CategoryLookup ==
  Answered("get_category_products") =>
    LET stored == StoredWithId(productData.items, request.args.category_id)
    IN /\ ~Outcome.threw
       /\ stored = {} =>
            /\ "found" \in DOMAIN Payload
            /\ ~Payload.found
            /\ Payload.message.quoted = Interpolate(request.args.category_id)
       /\ (stored # {} /\ ~IsGiven(request.args.subcategory_name)) =>
            LET first == CHOOSE c \in stored : \A d \in stored : c <= d
            IN /\ "total_products" \in DOMAIN Payload
               /\ Payload.total_products
                    = CountProducts(productData.items[first].subcategories)

\* a known id, no subcategory_name, two non-empty subcategories and a limit
\* that cuts the list
C6_Witness ==
  /\ Answered("get_category_products") /\ ~Outcome.threw
  /\ ~IsGiven(request.args.subcategory_name)
  /\ \E c \in StoredWithId(productData.items, request.args.category_id) :
       /\ Len(productData.items[c].subcategories) = 2
       /\ \A j \in 1..2 : Len(productData.items[c].subcategories[j].products) > 0
  /\ "total_products" \in DOMAIN Payload
  /\ Payload.showing < Payload.total_products

FourTools ==
  { "search_products", "get_product_by_model", "list_categories", "get_category_products" }

\* the payload is an empty or not-found result of the tool
EmptyResult(name, payload) ==
  CASE name = "search_products" -> payload.total_found = 0
    [] name = "list_categories" -> payload.total_categories = 0
    [] OTHER -> "found" \in DOMAIN payload /\ ~payload.found

\* C7: if loading the catalog document fails or the document is malformed
\* (file missing, invalid JSON, valid JSON that is not an array), the store
\* holds an empty catalog and every one of the four query operations called
\* afterwards completes with an empty or not-found result.
C7_LoadDegradesToEmpty ==
  (document.kind # "array" /\ phase = "running") =>
    /\ productData = EmptyCatalog
    /\ (response # << >> /\ request.name \in FourTools) =>
         (~Outcome.threw /\ EmptyResult(request.name, Payload))

\* the catalog the one-time load yields for the document
LoadedCatalog == parsedProductData(document, EmptyCatalog)

\* C8: after the load, no call of the four operations (whatever its arguments
\* and its result) changes the catalog, and the result of each call is the
\* function of its own arguments and the loaded catalog.
C8_QueriesLeaveCatalog ==
  [][ /\ phase = "running" => productData' = productData
      /\ (phase = "running" /\ response = << >> /\ response' # << >>) =>
           response'[1] = callTool(LoadedCatalog, request'.name, request'.args)
    ]_vars

\* a call over a non-empty catalog ended in a not-found result
C8_Witness ==
  /\ Answered("get_category_products") /\ ~Outcome.threw
  /\ Len(productData.items) > 0
  /\ "found" \in DOMAIN Payload /\ ~Payload.found
  /\ productData = LoadedCatalog

\* the request names an operation and omits its required argument
MissingRequired(req) ==
  \/ req.name = "search_products" /\ ~IsGiven(req.args.keyword)
  \/ req.name = "get_product_by_model" /\ ~IsGiven(req.args.model)
  \/ req.name = "get_category_products" /\ ~IsGiven(req.args.category_id)

\* C9: a request that names one of the operations and omits its required
\* argument is rejected by the dispatcher before the query function is
\* invoked.
C9_RejectedBeforeEngine ==
  (response # << >> /\ MissingRequired(request)) =>
    (invoked = "none" /\ Outcome.threw)

\* the products get_category_products selects before limiting
Selected(items, args) ==
  LET c == findCategory(items, args.category_id)
      subs == items[c].subcategories
  IN IF TruthyString(args.subcategory_name)
     THEN tagged(subs[findSubcategory(subs, args.subcategory_name[1])])
     ELSE allSubcategoryProducts(subs)

\* C10: for a known category_id and every limit the caller may pass,
\* total_products is the number of selected products before limiting,
\* products is the first limit selected products in source order (never more
\* than limit; a limit below 0 read as allowing none), and showing is the
\* length of products.
C10_LimitCapsListing ==
  (Answered("get_category_products") /\ ~Outcome.threw
   /\ "total_products" \in DOMAIN Payload) =>
    LET limit == WithDefault(request.args.limit, DefaultCategoryLimit)
        selected == Selected(productData.items, request.args)
        views == [k \in 1..Len(selected) |-> categoryView(selected[k])]
    IN /\ Payload.total_products = Len(selected)
       /\ Payload.products = FirstN(views, limit)
       /\ Len(Payload.products) <= Max(limit, 0)
       /\ Payload.showing = Len(Payload.products)

====
